---- MODULE Spec2Model ----
(***************************************************************************)
(* retrogfx: conversion between indexed-pixel buffers and the tile formats *)
(* Planar, Interwined and GBA.  The model follows lib/retrogfx.cpp (the    *)
(* codec) and src/retrogfx.hpp (Span2D).  Buffers are sequences, a         *)
(* std::span is a (base, size) view over its backing buffer, and the sink  *)
(* callbacks append to a log.                                              *)
(***************************************************************************)
EXTENDS Integers, Sequences, FiniteSets, TLC

VARIABLES
    bpp,        \* bits per pixel of the call
    format,     \* Format of the call
    img,        \* encode: backing buffer of the index image
    width,      \* encode: Span2D width
    height,     \* encode: Span2D height
    ex,         \* encode: inner loop variable x
    ey,         \* encode: outer loop variable y
    tilesOut,   \* encode: spans handed to write_data, in call order
    ereads,     \* encode: buffer positions read by the last encode_tile
    estatus,    \* encode: "idle", "start", "loop", "error", "done"
    bytes,      \* decode: input buffer
    hardened,   \* build: library preconditions checked (TRUE) or not
    di,         \* decode: loop variable i (byte offset of the chunk)
    dr,         \* decode: loop variable r (row inside the chunk)
    rows,       \* decode: rows handed to draw_row, in call order
    views,      \* decode: tile windows asked of subspan() by decode_row
    dstatus,    \* decode: "idle", "run", "done", "assert_failed", "aborted"
    hbytes,     \* img_height: argument num_bytes
    hresult,    \* img_height: returned value
    hstatus,    \* img_height: "idle", "call", "done"
    divTraps,   \* target: integer division by zero traps (TRUE) or not
    gform,      \* grayscale: "callback", "template", "default"
    gchannels,  \* grayscale: template argument Channels
    gt,         \* grayscale: loop variable t
    gout,       \* grayscale: values handed to f, or the returned array
    gstatus,    \* grayscale: "idle", "run", "done", "trapped"
    pfun,       \* palette: the function called
    channels,   \* palette: argument channels
    palette,    \* palette: argument palette, a sequence of colors
    pdata,      \* palette: argument data
    pc,         \* palette: loop variable (c or i)
    pout,       \* palette: values handed to output, in call order
    pret,       \* palette: returned value
    pstatus,    \* palette: "idle", "run", "done", "aborted"
    torigin,    \* tile: "pixels" (encode, then decode) or "bytes"
    tpix,       \* tile: the 8x8 index tile that is encoded
    ttile,      \* tile: the bpp*8 tile bytes that are decoded
    tres,       \* tile: the array res of encode_tile
    tdec,       \* tile: pixels decoded so far, row by row
    twrites,    \* tile: indexes of res assigned so far, in order
    ty,         \* tile: loop variable y
    tstatus,    \* tile: "idle", "encode", "decode", "done", "assert_failed"
    sparent,    \* Span2D: the view subspan() is called on
    ssub,       \* Span2D: the arguments x, y, width, height of subspan()
    schild,     \* Span2D: the view subspan() returned
    srow,       \* Span2D: row of the element read through the child
    scol,       \* Span2D: column of the element read through the child
    spos,       \* Span2D: buffer position of that element
    sstatus     \* Span2D: "idle", "view", "sub", "read"

vars == <<bpp, format, img, width, height, ex, ey, tilesOut, ereads, estatus,
          bytes, hardened, di, dr, rows, views, dstatus, hbytes, hresult, hstatus,
          divTraps, gform, gchannels, gt, gout, gstatus,
          pfun, channels, palette, pdata, pc, pout, pret, pstatus,
          torigin, tpix, ttile, tres, tdec, twrites, ty, tstatus,
          sparent, ssub, schild, srow, scol, spos, sstatus>>

encVars == <<img, width, height, ex, ey, tilesOut, ereads, estatus>>
decVars == <<bytes, hardened, di, dr, rows, views, dstatus>>
hgtVars == <<hbytes, hresult, hstatus>>
grayVars == <<divTraps, gform, gchannels, gt, gout, gstatus>>
palVars == <<pfun, channels, palette, pdata, pc, pout, pret, pstatus>>
tileVars == <<torigin, tpix, ttile, tres, tdec, twrites, ty, tstatus>>
spanVars == <<sparent, ssub, schild, srow, scol, spos, sstatus>>
auxVars == <<grayVars, palVars, tileVars, spanVars>>

(***************************************************************************)
(* Program constants.                                                      *)
(***************************************************************************)
TILES_PER_ROW == 16
TILE_WIDTH == 8
TILE_HEIGHT == 8
ROW_SIZE == TILES_PER_ROW * TILE_WIDTH
MAX_BPP == 8

Formats == {"Planar", "Interwined", "GBA"}

\* Value standing for a failed assert() in a decoder.
AssertFailed == -1

(***************************************************************************)
(* Bounds of the model.                                                    *)
(***************************************************************************)
MaxTiles == 2       \* encode: image width and height, in tiles
MaxSeed == 2        \* largest number of a buffer content tried
MaxChunks == 1      \* whole 16-tile chunks in the tile data
MaxPartTiles == 1   \* decode: whole tiles in a partial final chunk
MaxSlack == 1       \* decode: bytes after the last whole tile
MaxGroups == 8      \* img_height: row groups in the argument
MaxPal == 2         \* palette functions: entries of the palette
MaxPixels == 2      \* palette functions: colors or indexes in the data
MaxSide == 3        \* Span2D: width and height of the view
MaxStride == 2      \* Span2D: stride of the view
MaxBase == 5        \* Span2D: position of the view's first element

(***************************************************************************)
(* Bit utilities.                                                          *)
(***************************************************************************)
bitmask(nbits) == 2^nbits - 1

getbits(num, bitno, nbits) == (num \div 2^bitno) % (bitmask(nbits) + 1)

getbit(num, bitno) == getbits(num, bitno, 1)

setbits(num, bitno, nbits, data) ==
    LET mask  == bitmask(nbits)
        old   == (num \div 2^bitno) % (mask + 1)
    IN  (num - old * 2^bitno) + (data % (mask + 1)) * 2^bitno

\* the third parameter is a bool: any nonzero argument converts to 1
setbit(num, bitno, data) == setbits(num, bitno, 1, IF data # 0 THEN 1 ELSE 0)

\* conversion of a value to u8
u8(v) == v % 256

\* the type of a u8 variable; the loops below test it on their accumulator
\* at every pass, which also keeps the evaluation of a pass from nesting
\* inside the next one
IsU8(v) == v \in 0..255

(***************************************************************************)
(* std::span as a view (base, size) over a backing buffer.                 *)
(***************************************************************************)
MkSpan(b, n) == [base |-> b, size |-> n]

\* precondition of std::span::subspan(offset, count)
SubspanOK(s, offset, count) == offset <= s.size /\ count <= s.size - offset

subspan(s, offset, count) == MkSpan(s.base + offset, count)

\* s[k] read from buffer buf; a read outside the buffer yields 0 here and is
\* reported separately by the bounds predicates
At(buf, s, k) == IF s.base + k < Len(buf) THEN buf[s.base + k + 1] ELSE 0

(***************************************************************************)
(* Span2D: a strided 2D view (d, w, h, s).                                 *)
(***************************************************************************)
Span2D(d, w, h, s) == [d |-> d, w |-> w, h |-> h, s |-> s]

Span2D_row(sp, y) == MkSpan(sp.d + y * (sp.w + sp.s), sp.w)

\* mutant: x and y exchanged in the offset
Span2D_subspan_swapped(sp, x, y, w2, h2) ==
    Span2D(sp.d + x * (sp.w + sp.s) + y, w2, h2, sp.s + (sp.w - w2))

\* mutant: the stride of the parent is kept
Span2D_subspan_samestride(sp, x, y, w2, h2) ==
    Span2D(sp.d + y * (sp.w + sp.s) + x, w2, h2, sp.s)

Span2D_subspan(sp, x, y, w2, h2) ==
    Span2D(sp.d + y * (sp.w + sp.s) + x, w2, h2, sp.s + (sp.w - w2))

(***************************************************************************)
(* Pixel decoders.                                                         *)
(***************************************************************************)
RECURSIVE planar_loop(_, _, _, _, _, _, _)
planar_loop(buf, tile, y, nbit, n, i, res) ==
    IF i >= n \/ ~IsU8(res) THEN res
    ELSE planar_loop(buf, tile, y, nbit, n, i + 1,
                     u8(setbit(res, i, getbit(At(buf, tile, y + i*8), nbit))))

\* mutant: the pixel bit is taken at bit x, not at bit 7-x
decoders_planar_lsb(buf, tile, y, x, n) ==
    planar_loop(buf, tile, y, x, n, 0, 0)

decoders_planar(buf, tile, y, x, n) ==
    planar_loop(buf, tile, y, 7 - x, n, 0, 0)

RECURSIVE interwined_loop(_, _, _, _, _, _, _)
interwined_loop(buf, tile, y, nbit, n, i, res) ==
    IF i >= n \div 2 \/ ~IsU8(res) THEN res
    ELSE LET r1 == u8(setbit(res, i*2, getbit(At(buf, tile, i*16 + y*2), nbit)))
             r2 == u8(setbit(r1, i*2 + 1, getbit(At(buf, tile, i*16 + y*2 + 1), nbit)))
         IN  interwined_loop(buf, tile, y, nbit, n, i + 1, r2)

\* mutant: the unpaired plane is read where a pair would start
decoders_interwined_oddpair(buf, tile, y, x, n) ==
    LET nbit == 7 - x
        res  == interwined_loop(buf, tile, y, nbit, n, 0, 0)
    IN  IF n % 2 # 0
        THEN LET i == n \div 2
             IN  u8(setbit(res, i*2, getbit(At(buf, tile, i*16 + y*2), nbit)))
        ELSE res

decoders_interwined(buf, tile, y, x, n) ==
    LET nbit == 7 - x
        res  == interwined_loop(buf, tile, y, nbit, n, 0, 0)
    IN  IF n % 2 # 0
        THEN LET i == n \div 2
             IN  u8(setbit(res, i*2, getbit(At(buf, tile, i*16 + y), nbit)))
        ELSE res

\* mutant: the assertion admits bpp = 4 only
decoders_gba_assert4(buf, tile, y, x, n) ==
    IF ~(n = 4) THEN AssertFailed
    ELSE LET version == getbit(n, 2)
         IN  getbits(At(buf, tile, y * n + (x \div 2^version)),
                     ((x % 2) * version) * 4, n)

\* x >> version is x \div 2^version; version is 0 or 1, so x & version is
\* (x % 2) * version
decoders_gba(buf, tile, y, x, n) ==
    IF ~(n = 4 \/ n = 8) THEN AssertFailed
    ELSE LET version == getbit(n, 2)
         IN  getbits(At(buf, tile, y * n + (x \div 2^version)),
                     ((x % 2) * version) * 4, n)

decode_pixel(buf, tile, row, col, n, mode) ==
    CASE mode = "Planar"     -> decoders_planar(buf, tile, row, col, n)
      [] mode = "Interwined" -> decoders_interwined(buf, tile, row, col, n)
      [] mode = "GBA"        -> decoders_gba(buf, tile, row, col, n)
      [] OTHER               -> 0


(***************************************************************************)
(* decode_row: one 128-entry row of a chunk of up to 16 tiles.             *)
(***************************************************************************)
decode_row(buf, tiles, y, num_tiles, n, mode) ==
    LET bpt == n * 8
    IN  [k \in 1..ROW_SIZE |->
            LET t == (k - 1) \div 8
                x == (k - 1) % 8
            IN  IF t < num_tiles
                THEN decode_pixel(buf, subspan(tiles, t * bpt, bpt), y, x, n, mode)
                ELSE 0]

\* What happens first while decode_row walks the 16 tile slots: "abort" when
\* a checked build meets a subspan() whose precondition fails, "assert" when
\* a decoder's assert() fails, "ok" when the row is completed.
decode_row_event(buf, tiles, y, num_tiles, n, mode, checked) ==
    LET bpt     == n * 8
        slots   == 0..(TILES_PER_ROW - 1)
        aborts  == {t \in slots : checked /\ ~SubspanOK(tiles, t * bpt, bpt)}
        asserts == {t \in slots :
                       /\ t < num_tiles
                       /\ decode_pixel(buf, subspan(tiles, t * bpt, bpt), y, 0, n, mode)
                              = AssertFailed}
        first(S) == CHOOSE t \in S : \A u \in S : t <= u
    IN  IF aborts = {} /\ asserts = {} THEN "ok"
        ELSE IF asserts = {} THEN "abort"
        ELSE IF aborts = {} THEN "assert"
        ELSE IF first(aborts) <= first(asserts) THEN "abort"
        ELSE "assert"

\* The windows decode_row asks of tiles.subspan(n*bpt, bpt), as views of the
\* input buffer: one per tile slot, up to the slot of the first event.
decode_row_views(buf, tiles, y, num_tiles, n, mode, checked) ==
    LET bpt     == n * 8
        slots   == 0..(TILES_PER_ROW - 1)
        stops   == {t \in slots :
                       \/ checked /\ ~SubspanOK(tiles, t * bpt, bpt)
                       \/ /\ t < num_tiles
                          /\ decode_pixel(buf, subspan(tiles, t * bpt, bpt), y, 0, n, mode)
                                 = AssertFailed}
        last    == IF stops = {} THEN TILES_PER_ROW - 1
                   ELSE CHOOSE t \in stops : \A u \in stops : t <= u
    IN  {subspan(tiles, t * bpt, bpt) : t \in 0..last}

Min(a, b) == IF a < b THEN a ELSE b

\* the chunk decode() looks at when its loop variable is i
ChunkCount(buf, n, i) == Min(Len(buf) - i, (n * 8) * TILES_PER_ROW)
ChunkTiles(buf, n, i) == ChunkCount(buf, n, i) \div (n * 8)
ChunkSpan(buf, n, i)  == subspan(MkSpan(0, Len(buf)), i, ChunkCount(buf, n, i))

(***************************************************************************)
(* decode: one step per pass of the inner loop (one draw_row call).        *)
(***************************************************************************)
DecodeRow ==
    /\ dstatus = "run"
    /\ di < Len(bytes)
    /\ LET num_tiles == ChunkTiles(bytes, bpp, di)
           tiles     == ChunkSpan(bytes, bpp, di)
           ev        == decode_row_event(bytes, tiles, dr, num_tiles, bpp, format,
                                         hardened)
       IN  /\ views' = views \cup decode_row_views(bytes, tiles, dr, num_tiles, bpp,
                                                   format, hardened)
           /\ CASE ev = "abort" ->
                     /\ dstatus' = "aborted"
                     /\ UNCHANGED <<di, dr, rows>>
                [] ev = "assert" ->
                     /\ dstatus' = "assert_failed"
                     /\ UNCHANGED <<di, dr, rows>>
                [] OTHER ->
                     /\ rows' = Append(rows, decode_row(bytes, tiles, dr, num_tiles,
                                                        bpp, format))
                     /\ IF dr + 1 < TILE_HEIGHT
                        THEN dr' = dr + 1 /\ di' = di
                        ELSE dr' = 0 /\ di' = di + (bpp * 8) * TILES_PER_ROW
                     /\ dstatus' = "run"
    /\ UNCHANGED <<bpp, format, bytes, hardened>>
    /\ UNCHANGED encVars
    /\ UNCHANGED hgtVars
    /\ UNCHANGED auxVars

DecodeReturn ==
    /\ dstatus = "run"
    /\ di >= Len(bytes)
    /\ dstatus' = "done"
    /\ UNCHANGED <<bpp, format, bytes, hardened, di, dr, rows, views>>
    /\ UNCHANGED encVars
    /\ UNCHANGED hgtVars
    /\ UNCHANGED auxVars

(***************************************************************************)
(* Pixel encoders.  res is the 64-byte tile array, row a span of 8 pixels. *)
(***************************************************************************)
RECURSIVE row_byte(_, _, _, _, _)
row_byte(buf, row, i, c, byte) ==
    IF c >= 8 \/ ~IsU8(byte) THEN byte
    ELSE row_byte(buf, row, i, c + 1,
                  u8(setbit(byte, 7 - c, getbit(At(buf, row, c), i))))

\* entries 0..bpp-1 of the returned array; the others are never assigned
encode_planar_row(buf, row, n) ==
    [i \in 1..n |-> row_byte(buf, row, i - 1, 0, 0)]

\* the type of the tile array std::array<u8, MAX_BPP*TILE_HEIGHT>
IsTile(res) == Len(res) = MAX_BPP * TILE_HEIGHT

\* res[i] = v on the tile array; an index outside the array writes nothing
Store(res, i, v) == IF i < Len(res) THEN [res EXCEPT ![i + 1] = v] ELSE res

RECURSIVE planar_store(_, _, _, _, _)
planar_store(res, bs, n, y, x) ==
    IF x >= n \/ ~IsTile(res) THEN res
    ELSE planar_store(Store(res, y + x*8, bs[x + 1]), bs, n, y, x + 1)

encoders_planar(buf, res, row, n, y) ==
    LET bs == encode_planar_row(buf, row, n)
    IN  IF Len(bs) = n THEN planar_store(res, bs, n, y, 0) ELSE res

RECURSIVE interwined_store(_, _, _, _, _)
interwined_store(res, bs, n, y, i) ==
    IF i >= n \div 2 \/ ~IsTile(res) THEN res
    ELSE interwined_store(Store(Store(res, i*16 + y*2, bs[i*2 + 1]),
                                i*16 + y*2 + 1, bs[i*2 + 1 + 1]),
                          bs, n, y, i + 1)

\* mutant: the unpaired plane is stored where a pair would start
encoders_interwined_oddpair(buf, res, row, n, y) ==
    LET bs == encode_planar_row(buf, row, n)
        r1 == interwined_store(res, bs, n, y, 0)
    IN  IF Len(bs) # n THEN res
        ELSE IF n % 2 # 0
        THEN LET i == n \div 2 IN Store(r1, i*16 + y*2, bs[i*2 + 1])
        ELSE r1

encoders_interwined(buf, res, row, n, y) ==
    LET bs == encode_planar_row(buf, row, n)
        r1 == interwined_store(res, bs, n, y, 0)
    IN  IF Len(bs) # n THEN res
        ELSE IF n % 2 # 0
        THEN LET i == n \div 2 IN Store(r1, i*16 + y, bs[i*2 + 1])
        ELSE r1

RECURSIVE gba_store(_, _, _, _, _, _)
gba_store(buf, res, row, version, y, x) ==
    IF x >= TILE_WIDTH \/ ~IsTile(res) THEN res
    ELSE LET i == y * 4 + (x \div 2^version)
         IN  gba_store(buf,
                       Store(res, i, u8(setbits(res[i + 1], ((x % 2) * version) * 4,
                                                8 \div 2^version, At(buf, row, x)))),
                       row, version, y, x + 1)

encoders_gba(buf, res, row, n, y) ==
    gba_store(buf, res, row, getbit(n, 2), y, 0)

RECURSIVE encode_tile_loop(_, _, _, _, _, _)
encode_tile_loop(buf, res, tile, n, fmt, y) ==
    IF y >= TILE_HEIGHT \/ ~IsTile(res) THEN res
    ELSE LET row == Span2D_row(tile, y)
             r2  == CASE fmt = "Planar"     -> encoders_planar(buf, res, row, n, y)
                      [] fmt = "Interwined" -> encoders_interwined(buf, res, row, n, y)
                      [] fmt = "GBA"        -> encoders_gba(buf, res, row, n, y)
                      [] OTHER              -> res
         IN  encode_tile_loop(buf, r2, tile, n, fmt, y + 1)

\* positions of the buffer encode_tile reads: row[c], c in 0..7, of tile[y]
\* for each of the 8 rows y (every encoder reads all 8 pixels of its row)
encode_tile_reads(tile) ==
    {Span2D_row(tile, y).base + c : y \in 0..(TILE_HEIGHT - 1), c \in 0..(TILE_WIDTH - 1)}

encode_tile(buf, tile, n, fmt) ==
    encode_tile_loop(buf, [k \in 1..(MAX_BPP * TILE_HEIGHT) |-> 0], tile, n, fmt, 0)

\* mutant: the whole array is handed to write_data
TileSpan_whole(encoded, n) == encoded

\* the span {encoded.begin(), encoded.begin() + bpp*8} handed to write_data
TileSpan(encoded, n) == SubSeq(encoded, 1, n * 8)

(***************************************************************************)
(* encode: the size check, then one step per pass of the inner loop.       *)
(***************************************************************************)
\* mutant: only the width is tested
EncodeDimsOk_WidthOnly(w, h) == ~(w % 8 # 0)

EncodeDimsOk(w, h) == ~(w % 8 # 0 \/ h % 8 # 0)

\* loop variables after the pass at (x, y): the inner loop steps x by 8, the
\* outer loop steps y by 8 when the inner loop ends
NextTilePos(x, y, w) == IF x + 8 < w THEN <<x + 8, y>> ELSE <<0, y + 8>>

EncodeReject ==
    /\ estatus = "start"
    /\ ~EncodeDimsOk(width, height)
    /\ estatus' = "error"
    /\ UNCHANGED <<bpp, format, img, width, height, ex, ey, tilesOut, ereads>>
    /\ UNCHANGED decVars
    /\ UNCHANGED hgtVars
    /\ UNCHANGED auxVars

EncodeTile ==
    /\ estatus \in {"start", "loop"}
    /\ EncodeDimsOk(width, height)
    /\ ey < height /\ ex < width
    /\ LET whole   == Span2D(0, width, height, 0)
           tile    == Span2D_subspan(whole, ex, ey, 8, 8)
           encoded == encode_tile(img, tile, bpp, format)
           pos     == NextTilePos(ex, ey, width)
       IN  /\ tilesOut' = Append(tilesOut, TileSpan(encoded, bpp))
           /\ ereads' = encode_tile_reads(tile)
           /\ ex' = pos[1]
           /\ ey' = pos[2]
    /\ estatus' = "loop"
    /\ UNCHANGED <<bpp, format, img, width, height>>
    /\ UNCHANGED decVars
    /\ UNCHANGED hgtVars
    /\ UNCHANGED auxVars

EncodeReturn ==
    /\ estatus \in {"start", "loop"}
    /\ EncodeDimsOk(width, height)
    /\ ~(ey < height /\ ex < width)
    /\ estatus' = "done"
    /\ UNCHANGED <<bpp, format, img, width, height, ex, ey, tilesOut, ereads>>
    /\ UNCHANGED decVars
    /\ UNCHANGED hgtVars
    /\ UNCHANGED auxVars

(***************************************************************************)
(* img_height.                                                             *)
(***************************************************************************)
\* mutant: the height is left in tile rows, not multiplied by 8
img_height_tilerows(num_bytes, n) ==
    LET bpt  == n * 8
        base == bpt * TILES_PER_ROW
        nb   == IF num_bytes % base = 0 THEN num_bytes
                ELSE (num_bytes \div base + 1) * base
    IN  (nb \div bpt) \div TILES_PER_ROW

img_height(num_bytes, n) ==
    LET bpt  == n * 8
        base == bpt * TILES_PER_ROW
        nb   == IF num_bytes % base = 0 THEN num_bytes
                ELSE (num_bytes \div base + 1) * base
    IN  ((nb \div bpt) \div TILES_PER_ROW) * 8

ImgHeight ==
    /\ hstatus = "call"
    /\ hresult' = img_height(hbytes, bpp)
    /\ hstatus' = "done"
    /\ UNCHANGED <<bpp, format, hbytes>>
    /\ UNCHANGED encVars
    /\ UNCHANGED decVars
    /\ UNCHANGED auxVars

(***************************************************************************)
(* Inputs.                                                                 *)
(***************************************************************************)
\* pixel k of the index image number seed, an index in [0, 2^n)
PixAt(k, seed, n) == ((k + 1) * (2 * seed + 1) + (k \div 8) + (k \div 64) * seed) % 2^n

\* byte k of the tile data number seed
ByteAt(k, seed) == ((k + 1) * (16 * seed + 37) + (k \div 8) * 5 + 255 * (seed % 2)) % 256

\* widths and heights tried by encode: 0, one tile and MaxTiles tiles, and
\* sizes that are not multiples of 8
Dims == {0, 4, 8, 8 * MaxTiles - 4, 8 * MaxTiles}

\* buffer contents tried per shape
Seeds == {1, MaxSeed}

\* lengths tried by decode: whole chunks, then whole tiles, then slack bytes
DecodeLens(n) ==
    {c * ((n * 8) * TILES_PER_ROW) + t * (n * 8) + s :
        c \in {0, MaxChunks}, t \in {0, MaxPartTiles}, s \in {0, MaxSlack}}

\* arguments tried by img_height around every multiple of the row size
HeightArgs(n) ==
    {g * ((n * 8) * TILES_PER_ROW) + d :
        g \in 0..MaxGroups, d \in {0, 1, n * 8, (n * 8) * TILES_PER_ROW - 1}}

EncodeIdle ==
    /\ img = <<>> /\ width = 0 /\ height = 0 /\ ex = 0 /\ ey = 0
    /\ tilesOut = <<>> /\ ereads = {} /\ estatus = "idle"

DecodeIdle ==
    /\ bytes = <<>> /\ di = 0 /\ dr = 0 /\ rows = <<>> /\ views = {}
    /\ dstatus = "idle"

HeightIdle == hbytes = 0 /\ hresult = 0 /\ hstatus = "idle"

GrayIdle ==
    /\ divTraps = FALSE /\ gform = "callback" /\ gchannels = 3
    /\ gt = 0 /\ gout = <<>> /\ gstatus = "idle"

PaletteIdle ==
    /\ pfun = "none" /\ channels = 3 /\ palette = <<>> /\ pdata = <<>>
    /\ pc = 0 /\ pout = <<>> /\ pret = 0 /\ pstatus = "idle"

TileIdle ==
    /\ torigin = "pixels" /\ tpix = <<>> /\ ttile = <<>> /\ tres = <<>>
    /\ tdec = <<>> /\ twrites = <<>> /\ ty = 0 /\ tstatus = "idle"

SpanIdle ==
    /\ sparent = Span2D(0, 0, 0, 0) /\ ssub = [x |-> 0, y |-> 0, w |-> 0, h |-> 0]
    /\ schild = Span2D(0, 0, 0, 0) /\ srow = 0 /\ scol = 0 /\ spos = 0
    /\ sstatus = "idle"

AuxIdle == GrayIdle /\ PaletteIdle /\ TileIdle /\ SpanIdle

EncodeStart(ws, hs) ==
    /\ width \in ws
    /\ height \in hs
    /\ \E seed \in Seeds :
          img = [k \in 1..(width * height) |-> PixAt(k - 1, seed, bpp)]
    /\ ex = 0 /\ ey = 0 /\ tilesOut = <<>> /\ ereads = {} /\ estatus = "start"

(***************************************************************************)
(* SpecEncode: one call of encode on an image of any tried size.           *)
(***************************************************************************)
InitEncode ==
    /\ bpp \in 1..MAX_BPP
    /\ format \in Formats
    /\ hardened \in BOOLEAN
    /\ EncodeStart(Dims, Dims)
    /\ DecodeIdle
    /\ HeightIdle
    /\ AuxIdle

NextEncode == EncodeReject \/ EncodeTile \/ EncodeReturn

SpecEncode == InitEncode /\ [][NextEncode]_vars

(***************************************************************************)
(* SpecDecode: one call of decode on a buffer of any tried length.         *)
(***************************************************************************)
InitDecode ==
    /\ bpp \in 1..MAX_BPP
    /\ format \in Formats
    /\ hardened \in BOOLEAN
    /\ \E len \in DecodeLens(bpp), seed \in Seeds :
          bytes = [k \in 1..len |-> ByteAt(k - 1, seed)]
    /\ di = 0 /\ dr = 0 /\ rows = <<>> /\ views = {} /\ dstatus = "run"
    /\ EncodeIdle
    /\ HeightIdle
    /\ AuxIdle

NextDecode == DecodeRow \/ DecodeReturn

SpecDecode == InitDecode /\ [][NextDecode]_vars

(***************************************************************************)
(* SpecHeight: one call of img_height.                                     *)
(***************************************************************************)
InitHeight ==
    /\ bpp \in 1..MAX_BPP
    /\ format \in Formats
    /\ hardened \in BOOLEAN
    /\ hbytes \in HeightArgs(bpp)
    /\ hresult = 0
    /\ hstatus = "call"
    /\ EncodeIdle
    /\ DecodeIdle
    /\ AuxIdle

NextHeight == ImgHeight

SpecHeight == InitHeight /\ [][NextHeight]_vars

(***************************************************************************)
(* Spec: an image 128 pixels wide is encoded, the tiles written by the     *)
(* sink are read back as one buffer, and that buffer is decoded.           *)
(***************************************************************************)
RECURSIVE Flatten(_)
Flatten(ss) == IF ss = <<>> THEN <<>> ELSE Head(ss) \o Flatten(Tail(ss))

\* the tile sink writes each span to the file; the file is then decoded
ReadBack ==
    /\ estatus = "done"
    /\ dstatus = "idle"
    /\ bytes' = Flatten(tilesOut)
    /\ di' = 0 /\ dr' = 0 /\ rows' = <<>> /\ views' = {}
    /\ dstatus' = "run"
    /\ UNCHANGED <<bpp, format, hardened>>
    /\ UNCHANGED encVars
    /\ UNCHANGED hgtVars
    /\ UNCHANGED auxVars

Init ==
    /\ bpp \in 1..MAX_BPP
    /\ format \in Formats
    /\ hardened \in BOOLEAN
    /\ EncodeStart({ROW_SIZE}, {8 * c : c \in 1..MaxChunks} \cup {4})
    /\ DecodeIdle
    /\ HeightIdle
    /\ AuxIdle

Next ==
    \/ EncodeReject
    \/ EncodeTile
    \/ EncodeReturn
    \/ ReadBack
    \/ DecodeRow
    \/ DecodeReturn

Spec == Init /\ [][Next]_vars

(***************************************************************************)
(* Grayscale palettes: the callback form and the template form of          *)
(* grayscale_palette (lib/retrogfx.cpp, lib/retrogfx.hpp) and              *)
(* make_default_palette (src/retrogfx.cpp).                                *)
(***************************************************************************)
\* std::pow(bpp, 2)
bpp_size(n) == n^2

\* pow2(n): r *= 2, n times
pow2(n) == 2^n

\* low byte of the quotient an integer division by zero leaves where it does
\* not trap (all zeros or all ones); only the low byte of the product
\* 0xFF / (n-1) * t reaches the uint8_t
DivByZeroQuotients == {0, 255}

\* the values 0xFF / (n-1) can take
GrayQuotients(n) == IF n - 1 = 0 THEN DivByZeroQuotients ELSE {255 \div (n - 1)}

\* the array built for one entry by the template form
GrayColor(value, ch) ==
    CASE ch = 1 -> <<value>>
      [] ch = 2 -> <<value, 255>>
      [] ch = 3 -> <<value, value, value>>
      [] ch = 4 -> <<value, value, value, 255>>
      [] OTHER  -> <<>>

\* one pass of the loop of grayscale_palette(bpp, f): f(0xFF / (n-1) * t)
GrayscaleStep ==
    /\ gform = "callback"
    /\ gstatus = "run"
    /\ LET n == bpp_size(bpp)
       IN  /\ gt < n
           /\ \/ /\ n - 1 = 0
                 /\ divTraps
                 /\ gstatus' = "trapped"
                 /\ UNCHANGED <<gt, gout>>
              \/ /\ ~(n - 1 = 0 /\ divTraps)
                 /\ \E q \in GrayQuotients(n) :
                       gout' = Append(gout, u8(q * gt))
                 /\ gt' = u8(gt + 1)
                 /\ gstatus' = "run"
    /\ UNCHANGED <<divTraps, gform, gchannels>>
    /\ UNCHANGED <<bpp, format>>
    /\ UNCHANGED <<encVars, decVars, hgtVars, palVars, tileVars, spanVars>>

GrayscaleReturn ==
    /\ gform = "callback"
    /\ gstatus = "run"
    /\ ~(gt < bpp_size(bpp))
    /\ gstatus' = "done"
    /\ UNCHANGED <<divTraps, gform, gchannels, gt, gout>>
    /\ UNCHANGED <<bpp, format>>
    /\ UNCHANGED <<encVars, decVars, hgtVars, palVars, tileVars, spanVars>>

\* grayscale_palette<BPP, Channels>(): N = bpp_size(BPP) entries
GrayscaleTemplate ==
    /\ gform = "template"
    /\ gstatus = "run"
    /\ LET N == bpp_size(bpp)
       IN  \/ /\ N - 1 = 0
              /\ divTraps
              /\ gstatus' = "trapped"
              /\ UNCHANGED gout
           \/ /\ ~(N - 1 = 0 /\ divTraps)
              /\ \E q \in GrayQuotients(N) :
                    gout' = [k \in 1..N |->
                                GrayColor(u8(q * (k - 1)), gchannels)]
              /\ gstatus' = "done"
    /\ UNCHANGED <<divTraps, gform, gchannels, gt>>
    /\ UNCHANGED <<bpp, format>>
    /\ UNCHANGED <<encVars, decVars, hgtVars, palVars, tileVars, spanVars>>

\* make_default_palette<BPP>(): N = pow2(BPP), base = 0xFF / (N-1) as uint8_t
MakeDefaultPalette ==
    /\ gform = "default"
    /\ gstatus = "run"
    /\ LET N    == pow2(bpp)
           base == u8(255 \div (N - 1))
       IN  gout' = [k \in 1..N |->
                       LET value == u8(base * (k - 1))
                       IN  <<value, value, value>>]
    /\ gstatus' = "done"
    /\ UNCHANGED <<divTraps, gform, gchannels, gt>>
    /\ UNCHANGED <<bpp, format>>
    /\ UNCHANGED <<encVars, decVars, hgtVars, palVars, tileVars, spanVars>>

\* the instantiations palette_1bpp .. palette_8bpp
DefaultPaletteBpps == {1, 2, 3, 4, 8}

(***************************************************************************)
(* SpecGray: one construction of a grayscale palette.                      *)
(***************************************************************************)
InitGray ==
    /\ gform \in {"callback", "template", "default"}
    /\ bpp \in (IF gform = "default" THEN DefaultPaletteBpps ELSE 1..MAX_BPP)
    /\ gchannels \in (IF gform = "template" THEN 1..4 ELSE {3})
    /\ divTraps \in BOOLEAN
    /\ gt = 0 /\ gout = <<>> /\ gstatus = "run"
    /\ format = "Planar"
    /\ hardened = FALSE
    /\ EncodeIdle
    /\ DecodeIdle
    /\ HeightIdle
    /\ SpanIdle
    /\ PaletteIdle
    /\ TileIdle

NextGray ==
    \/ GrayscaleStep
    \/ GrayscaleReturn
    \/ GrayscaleTemplate
    \/ MakeDefaultPalette

SpecGray == InitGray /\ [][NextGray]_vars

(***************************************************************************)
(* Palette lookup and application: find_color, make_indexed and            *)
(* apply_palette of lib/retrogfx.hpp, make_indexed<Channels> of            *)
(* src/retrogfx.hpp, and find_color, make_indexed and apply_palette of     *)
(* src/retrogfx.cpp.  Image data is a flat sequence of channel bytes.      *)
(***************************************************************************)
\* !std::memcmp(palette[i].data(), color.data(), color.size())
SameBytes(entry, color) == SubSeq(entry, 1, Len(color)) = color

\* lib/retrogfx.hpp find_color: returns at the first i that compares equal
RECURSIVE find_color_loop(_, _, _)
find_color_loop(pal, color, i) ==
    IF ~(i < Len(pal)) THEN -1
    ELSE IF SameBytes(pal[i + 1], color) THEN i
    ELSE find_color_loop(pal, color, i + 1)

find_color(pal, color) == find_color_loop(pal, color, 0)

\* src/retrogfx.cpp make_color: 1 channel is gray, 3 channels are RGB
make_color(data) ==
    CASE Len(data) = 1 -> <<data[1], data[1], data[1]>>
      [] Len(data) = 3 -> <<data[1], data[2], data[3]>>
      [] OTHER         -> <<0, 0, 0>>

\* src/retrogfx.cpp find_color: std::find, then it - p.begin() or -1
RECURSIVE std_find(_, _, _)
std_find(p, c, i) ==
    IF ~(i < Len(p)) THEN Len(p)
    ELSE IF p[i + 1] = c THEN i
    ELSE std_find(p, c, i + 1)

find_color_RGB(p, c) ==
    LET it == std_find(p, c, 0) IN IF it # Len(p) THEN it ELSE -1

\* src/retrogfx.hpp make_indexed<Channels>, inner loop: index = i at every
\* match, without leaving the loop
RECURSIVE template_index_loop(_, _, _, _)
template_index_loop(pal, color, i, index) ==
    IF ~(i < Len(pal)) THEN index
    ELSE template_index_loop(pal, color, i + 1,
                             IF pal[i + 1] = color THEN i ELSE index)

\* data.subspan(c, channels)
DataColor(data, c, ch) == SubSeq(data, c + 1, c + ch)

\* lib/retrogfx.hpp find_color, called on one color
FindColor ==
    /\ pfun = "find_color"
    /\ pstatus = "run"
    /\ pret' = find_color(palette, pdata)
    /\ pstatus' = "done"
    /\ UNCHANGED <<pfun, channels, palette, pdata, pc, pout>>
    /\ UNCHANGED <<bpp, format>>
    /\ UNCHANGED <<encVars, decVars, hgtVars, grayVars, tileVars, spanVars>>

\* src/retrogfx.cpp find_color, called on one color
FindColorRGB ==
    /\ pfun = "find_color_RGB"
    /\ pstatus = "run"
    /\ pret' = find_color_RGB(palette, make_color(pdata))
    /\ pstatus' = "done"
    /\ UNCHANGED <<pfun, channels, palette, pdata, pc, pout>>
    /\ UNCHANGED <<bpp, format>>
    /\ UNCHANGED <<encVars, decVars, hgtVars, grayVars, tileVars, spanVars>>

\* lib/retrogfx.hpp make_indexed: one pass of the loop over c
MakeIndexedStep ==
    /\ pfun = "make_indexed"
    /\ pstatus = "run"
    /\ pc < Len(pdata)
    /\ LET i == find_color(palette, DataColor(pdata, pc, channels))
       IN  IF i = -1
           THEN /\ pret' = pc
                /\ pstatus' = "done"
                /\ UNCHANGED <<pc, pout>>
           ELSE /\ pout' = Append(pout, i)
                /\ pc' = pc + channels
                /\ UNCHANGED <<pret, pstatus>>
    /\ UNCHANGED <<pfun, channels, palette, pdata>>
    /\ UNCHANGED <<bpp, format>>
    /\ UNCHANGED <<encVars, decVars, hgtVars, grayVars, tileVars, spanVars>>

MakeIndexedReturn ==
    /\ pfun = "make_indexed"
    /\ pstatus = "run"
    /\ ~(pc < Len(pdata))
    /\ pret' = -1
    /\ pstatus' = "done"
    /\ UNCHANGED <<pfun, channels, palette, pdata, pc, pout>>
    /\ UNCHANGED <<bpp, format>>
    /\ UNCHANGED <<encVars, decVars, hgtVars, grayVars, tileVars, spanVars>>

\* src/retrogfx.hpp make_indexed<Channels>: one pass of the loop over c, data
\* element c being the channels at c*Channels
MakeIndexedTemplateStep ==
    /\ pfun = "make_indexed_template"
    /\ pstatus = "run"
    /\ pc < Len(pdata) \div channels
    /\ LET index == template_index_loop(palette,
                                        DataColor(pdata, pc * channels, channels),
                                        0, -1)
       IN  IF index = -1
           THEN /\ pret' = pc
                /\ pstatus' = "done"
                /\ UNCHANGED <<pc, pout>>
           ELSE /\ pout' = Append(pout, index)
                /\ pc' = pc + 1
                /\ UNCHANGED <<pret, pstatus>>
    /\ UNCHANGED <<pfun, channels, palette, pdata>>
    /\ UNCHANGED <<bpp, format>>
    /\ UNCHANGED <<encVars, decVars, hgtVars, grayVars, tileVars, spanVars>>

MakeIndexedTemplateReturn ==
    /\ pfun = "make_indexed_template"
    /\ pstatus = "run"
    /\ ~(pc < Len(pdata) \div channels)
    /\ pret' = -1
    /\ pstatus' = "done"
    /\ UNCHANGED <<pfun, channels, palette, pdata, pc, pout>>
    /\ UNCHANGED <<bpp, format>>
    /\ UNCHANGED <<encVars, decVars, hgtVars, grayVars, tileVars, spanVars>>

\* src/retrogfx.cpp make_indexed: one pass of the loop over i; it returns void
MakeIndexedRGBStep ==
    /\ pfun = "make_indexed_RGB"
    /\ pstatus = "run"
    /\ pc < Len(pdata)
    /\ LET index == find_color_RGB(palette,
                                   make_color(DataColor(pdata, pc, channels)))
       IN  IF index = -1
           THEN pout' = Append(pout, 0)
           ELSE pout' = Append(pout, index)
    /\ pc' = pc + channels
    /\ UNCHANGED <<pfun, channels, palette, pdata, pret, pstatus>>
    /\ UNCHANGED <<bpp, format>>
    /\ UNCHANGED <<encVars, decVars, hgtVars, grayVars, tileVars, spanVars>>

MakeIndexedRGBReturn ==
    /\ pfun = "make_indexed_RGB"
    /\ pstatus = "run"
    /\ ~(pc < Len(pdata))
    /\ pstatus' = "done"
    /\ UNCHANGED <<pfun, channels, palette, pdata, pc, pout, pret>>
    /\ UNCHANGED <<bpp, format>>
    /\ UNCHANGED <<encVars, decVars, hgtVars, grayVars, tileVars, spanVars>>

\* lib/retrogfx.hpp apply_palette: one pass of for (auto i : data)
ApplyPaletteStep ==
    /\ pfun = "apply_palette"
    /\ pstatus = "run"
    /\ pc < Len(pdata)
    /\ LET i == pdata[pc + 1]
       IN  pout' = Append(pout, palette[i + 1])
    /\ pc' = pc + 1
    /\ UNCHANGED <<pfun, channels, palette, pdata, pret, pstatus>>
    /\ UNCHANGED <<bpp, format>>
    /\ UNCHANGED <<encVars, decVars, hgtVars, grayVars, tileVars, spanVars>>

ApplyPaletteReturn ==
    /\ pfun = "apply_palette"
    /\ pstatus = "run"
    /\ ~(pc < Len(pdata))
    /\ pstatus' = "done"
    /\ UNCHANGED <<pfun, channels, palette, pdata, pc, pout, pret>>
    /\ UNCHANGED <<bpp, format>>
    /\ UNCHANGED <<encVars, decVars, hgtVars, grayVars, tileVars, spanVars>>

\* the colors of the inputs: black, white and (10, 20, ...)
PalColors(ch) ==
    {[k \in 1..ch |-> 0], [k \in 1..ch |-> 255], [k \in 1..ch |-> 10 * k]}

\* src/retrogfx.cpp apply_palette: one pass of the loop over i, which hands
\* palette[i] to output; past the end of the palette the read is out of
\* bounds: a checked build stops, any other reads some color
ApplyPaletteRGBStep ==
    /\ pfun = "apply_palette_RGB"
    /\ pstatus = "run"
    /\ pc < Len(pdata)
    /\ \/ /\ pc < Len(palette)
          /\ pout' = Append(pout, palette[pc + 1])
          /\ pc' = pc + 1
          /\ UNCHANGED pstatus
       \/ /\ ~(pc < Len(palette))
          /\ hardened
          /\ pstatus' = "aborted"
          /\ UNCHANGED <<pc, pout>>
       \/ /\ ~(pc < Len(palette))
          /\ ~hardened
          /\ \E c \in PalColors(3) : pout' = Append(pout, c)
          /\ pc' = pc + 1
          /\ UNCHANGED pstatus
    /\ UNCHANGED <<pfun, channels, palette, pdata, pret>>
    /\ UNCHANGED <<bpp, format>>
    /\ UNCHANGED <<encVars, decVars, hgtVars, grayVars, tileVars, spanVars>>

ApplyPaletteRGBReturn ==
    /\ pfun = "apply_palette_RGB"
    /\ pstatus = "run"
    /\ ~(pc < Len(pdata))
    /\ pstatus' = "done"
    /\ UNCHANGED <<pfun, channels, palette, pdata, pc, pout, pret>>
    /\ UNCHANGED <<bpp, format>>
    /\ UNCHANGED <<encVars, decVars, hgtVars, grayVars, tileVars, spanVars>>

(***************************************************************************)
(* SpecPalette: one call of one of the palette functions.                  *)
(***************************************************************************)
PaletteFunctions ==
    {"find_color", "find_color_RGB", "make_indexed", "make_indexed_template",
     "make_indexed_RGB", "apply_palette", "apply_palette_RGB"}

\* the functions of src/retrogfx.cpp, whose palette is a span of RGB
RGBFunctions == {"find_color_RGB", "make_indexed_RGB", "apply_palette_RGB"}

\* the sequences over S of a length in lo..hi
SeqsOf(S, lo, hi) == UNION {[1..n -> S] : n \in lo..hi}

InitPalette ==
    /\ pfun \in PaletteFunctions
    /\ channels \in (IF pfun = "apply_palette_RGB" THEN {3} ELSE {1, 3})
    /\ palette \in SeqsOf(PalColors(IF pfun \in RGBFunctions THEN 3 ELSE channels),
                          1, MaxPal)
    /\ pdata \in CASE pfun \in {"find_color", "find_color_RGB"} ->
                        PalColors(channels)
                   [] pfun \in {"apply_palette", "apply_palette_RGB"} ->
                        SeqsOf(0..(Len(palette) - 1), 0, MaxPixels)
                   [] OTHER ->
                        {Flatten(cs) : cs \in SeqsOf(PalColors(channels), 0, MaxPixels)}
    /\ hardened \in (IF pfun = "apply_palette_RGB" THEN BOOLEAN ELSE {FALSE})
    /\ pc = 0 /\ pout = <<>> /\ pret = 0 /\ pstatus = "run"
    /\ bpp = 1
    /\ format = "Planar"
    /\ EncodeIdle
    /\ DecodeIdle
    /\ HeightIdle
    /\ SpanIdle
    /\ GrayIdle
    /\ TileIdle

NextPalette ==
    \/ FindColor
    \/ FindColorRGB
    \/ MakeIndexedStep
    \/ MakeIndexedReturn
    \/ MakeIndexedTemplateStep
    \/ MakeIndexedTemplateReturn
    \/ MakeIndexedRGBStep
    \/ MakeIndexedRGBReturn
    \/ ApplyPaletteStep
    \/ ApplyPaletteReturn
    \/ ApplyPaletteRGBStep
    \/ ApplyPaletteRGBReturn

SpecPalette == InitPalette /\ [][NextPalette]_vars

(***************************************************************************)
(* One tile: encode_tile row by row, and decode_pixel over the 8 rows of   *)
(* one tile, as decode_row does for one tile slot.                         *)
(***************************************************************************)
\* indexes of res assigned by encoders::planar for row y, in order
planar_writes(n, y) == [k \in 1..n |-> y + (k - 1) * 8]

\* indexes of res assigned by encoders::interwined for row y, in order
interwined_writes(n, y) ==
    [k \in 1..n |->
        IF k <= 2 * (n \div 2)
        THEN ((k - 1) \div 2) * 16 + y * 2 + ((k - 1) % 2)
        ELSE (n \div 2) * 16 + y]

\* indexes of res assigned by encoders::gba for row y, in order
gba_writes(n, y) ==
    LET version == getbit(n, 2)
    IN  [k \in 1..TILE_WIDTH |-> y * 4 + ((k - 1) \div 2^version)]

\* one pass of the loop of encode_tile: row y of the tile is encoded into res
TileEncodeRow ==
    /\ tstatus = "encode"
    /\ ty < TILE_HEIGHT
    /\ LET row == Span2D_row(Span2D(0, TILE_WIDTH, TILE_HEIGHT, 0), ty)
           r2  == CASE format = "Planar"     -> encoders_planar(tpix, tres, row, bpp, ty)
                    [] format = "Interwined" -> encoders_interwined(tpix, tres, row, bpp, ty)
                    [] format = "GBA"        -> encoders_gba(tpix, tres, row, bpp, ty)
                    [] OTHER                 -> tres
           ws  == CASE format = "Planar"     -> planar_writes(bpp, ty)
                    [] format = "Interwined" -> interwined_writes(bpp, ty)
                    [] format = "GBA"        -> gba_writes(bpp, ty)
                    [] OTHER                 -> <<>>
       IN  /\ tres' = r2
           /\ twrites' = twrites \o ws
           /\ IF ty + 1 < TILE_HEIGHT
              THEN /\ ty' = ty + 1
                   /\ UNCHANGED <<tstatus, ttile>>
              ELSE /\ ty' = 0
                   /\ IF torigin = "pixels"
                      THEN /\ ttile' = TileSpan(r2, bpp)
                           /\ tstatus' = "decode"
                      ELSE /\ tstatus' = "done"
                           /\ UNCHANGED ttile
    /\ UNCHANGED <<torigin, tpix, tdec>>
    /\ UNCHANGED <<bpp, format>>
    /\ UNCHANGED <<encVars, decVars, hgtVars, grayVars, palVars, spanVars>>

\* the 8 pixels of row y of one tile, as decode_row decodes them from the
\* tile view subspan(0, bpt)
TileDecodeRow ==
    /\ tstatus = "decode"
    /\ ty < TILE_HEIGHT
    /\ LET tile == subspan(MkSpan(0, Len(ttile)), 0, bpp * 8)
           px   == [x \in 1..TILE_WIDTH |->
                       decode_pixel(ttile, tile, ty, x - 1, bpp, format)]
       IN  IF \E x \in 1..TILE_WIDTH : px[x] = AssertFailed
           THEN /\ tstatus' = "assert_failed"
                /\ UNCHANGED <<tdec, ty, tpix>>
           ELSE /\ tdec' = tdec \o px
                /\ IF ty + 1 < TILE_HEIGHT
                   THEN /\ ty' = ty + 1
                        /\ UNCHANGED <<tstatus, tpix>>
                   ELSE /\ ty' = 0
                        /\ IF torigin = "bytes"
                           THEN /\ tpix' = tdec \o px
                                /\ tstatus' = "encode"
                           ELSE /\ tstatus' = "done"
                                /\ UNCHANGED tpix
    /\ UNCHANGED <<torigin, ttile, tres, twrites>>
    /\ UNCHANGED <<bpp, format>>
    /\ UNCHANGED <<encVars, decVars, hgtVars, grayVars, palVars, spanVars>>

\* the tiles of bytes tried: number 0 has byte 0 = 0xFF and 0 elsewhere
TileBytes(seed, n) ==
    [k \in 1..(n * 8) |->
        IF seed = 0 THEN (IF k = 1 THEN 255 ELSE 0) ELSE ByteAt(k - 1, seed)]

\* the index tiles tried
TilePixels(seed, n) ==
    [k \in 1..(TILE_WIDTH * TILE_HEIGHT) |-> PixAt(k - 1, seed, n)]

(***************************************************************************)
(* SpecTile: a tile of indexes is encoded and the bytes decoded, or a tile *)
(* of bytes is decoded and the indexes encoded.                            *)
(***************************************************************************)
InitTile ==
    /\ bpp \in 1..MAX_BPP
    /\ format \in Formats
    /\ torigin \in {"pixels", "bytes"}
    /\ \E seed \in Seeds \cup {0} :
          IF torigin = "pixels"
          THEN /\ seed # 0
               /\ tpix = TilePixels(seed, bpp)
               /\ ttile = <<>>
               /\ tstatus = "encode"
          ELSE /\ tpix = <<>>
               /\ ttile = TileBytes(seed, bpp)
               /\ tstatus = "decode"
    /\ tres = [k \in 1..(MAX_BPP * TILE_HEIGHT) |-> 0]
    /\ tdec = <<>> /\ twrites = <<>> /\ ty = 0
    /\ hardened = FALSE
    /\ EncodeIdle
    /\ DecodeIdle
    /\ HeightIdle
    /\ SpanIdle
    /\ GrayIdle
    /\ PaletteIdle

NextTile == TileEncodeRow \/ TileDecodeRow

SpecTile == InitTile /\ [][NextTile]_vars

(***************************************************************************)
(* Span2D: subspan() of a view, and an element read through the result.    *)
(***************************************************************************)
\* sp.subspan(x, y, width, height)
Span2DSubspan ==
    /\ sstatus = "view"
    /\ schild' = Span2D_subspan(sparent, ssub.x, ssub.y, ssub.w, ssub.h)
    /\ sstatus' = "sub"
    /\ UNCHANGED <<sparent, ssub, srow, scol, spos>>
    /\ UNCHANGED <<bpp, format>>
    /\ UNCHANGED <<encVars, decVars, hgtVars, grayVars, palVars, tileVars>>

\* child[r][c]: element c of the span operator[](r) returns
Span2DElement ==
    /\ sstatus = "sub"
    /\ \E r \in 0..(schild.h - 1), c \in 0..(schild.w - 1) :
          /\ srow' = r
          /\ scol' = c
          /\ spos' = Span2D_row(schild, r).base + c
    /\ sstatus' = "read"
    /\ UNCHANGED <<sparent, ssub, schild>>
    /\ UNCHANGED <<bpp, format>>
    /\ UNCHANGED <<encVars, decVars, hgtVars, grayVars, palVars, tileVars>>

\* the views tried: base 0 or MaxBase, sides up to MaxSide, stride 0 or
\* MaxStride
SpanViews ==
    {Span2D(d, w, h, st) :
        d \in {0, MaxBase}, w \in 1..MaxSide, h \in 1..MaxSide, st \in {0, MaxStride}}

\* the subspan arguments that stay inside the view sp
SubspanArgs(sp) ==
    {[x |-> x, y |-> y, w |-> w2, h |-> h2] :
        x \in 0..(sp.w - 1), y \in 0..(sp.h - 1), w2 \in 1..sp.w, h2 \in 1..sp.h}

SpanStart ==
    /\ sparent \in SpanViews
    /\ ssub \in {a \in SubspanArgs(sparent) :
                    a.x + a.w <= sparent.w /\ a.y + a.h <= sparent.h}
    /\ schild = Span2D(0, 0, 0, 0) /\ srow = 0 /\ scol = 0 /\ spos = 0
    /\ sstatus = "view"

(***************************************************************************)
(* SpecSpan2D: either a subspan of a strided view is taken and an element  *)
(* read through it, or encode runs over a whole image and takes its tiles  *)
(* with subspan().                                                         *)
(***************************************************************************)
InitSpan2D ==
    \/ /\ bpp = 1
       /\ format = "Planar"
       /\ hardened = FALSE
       /\ SpanStart
       /\ EncodeIdle
       /\ DecodeIdle
       /\ HeightIdle
       /\ GrayIdle
       /\ PaletteIdle
       /\ TileIdle
    \/ InitEncode

NextSpan2D ==
    \/ Span2DSubspan
    \/ Span2DElement
    \/ EncodeReject
    \/ EncodeTile
    \/ EncodeReturn

SpecSpan2D == InitSpan2D /\ [][NextSpan2D]_vars

(***************************************************************************)
(* Claims.                                                                 *)
(***************************************************************************)
\* the (bpp, Format) pairs the formats are defined for
ValidPair(n, fmt) == n \in 1..MAX_BPP /\ (fmt = "GBA" => n \in {4, 8})

\* C1: for every valid (bpp, Format) pair and every index buffer whose width
\* and height are multiples of 8, with entries in [0, 2^bpp), decoding the
\* bytes emitted by encode yields the original buffer.  Stated here for the
\* buffers of decode's own row width, 128, where the rows handed to the row
\* sink, taken in order, are a buffer of the same shape as the input.
C1_RoundTrip ==
    (dstatus = "done" /\ ValidPair(bpp, format)) => Flatten(rows) = img

\* What does hold: the round trip for every valid pair except (8, GBA).
RoundTripExceptGBA8 ==
    (dstatus = "done" /\ ValidPair(bpp, format) /\ ~(format = "GBA" /\ bpp = 8))
        => Flatten(rows) = img

\* C2: when encode is called with a width or a height that is not a multiple
\* of 8, it reports an error and returns without invoking the tile sink even
\* once, for every bpp and Format.
C2_RejectNoOutput ==
    (width % 8 # 0 \/ height % 8 # 0)
        => (tilesOut = <<>> /\ estatus \in {"start", "error"}
            /\ (estatus = "start" => ENABLED EncodeReject))

C2_Witness ==
    /\ estatus = "error" /\ tilesOut = <<>>
    /\ width % 8 = 0 /\ width > 0 /\ height % 8 # 0

\* C3: encode with Format GBA and a bpp that is not 4 or 8 is rejected before
\* any output is produced: the tile sink is never invoked.
C3_GBAEncodeRejected ==
    (format = "GBA" /\ ~(bpp \in {4, 8})) => tilesOut = <<>>

C5_TileLength ==
    \A k \in 1..Len(tilesOut) : Len(tilesOut[k]) = bpp * 8

C5_Witness ==
    /\ Len(tilesOut) >= 2 /\ format = "Interwined" /\ bpp = 3
    /\ Len(tilesOut[2]) = 24

\* the view of tile number k (row-major, from 0) of a w-wide image, written
\* out from the buffer layout: top-left pixel (8*(k mod w/8), 8*(k div w/8))
TileView(k, w) ==
    Span2D((8 * (k \div (w \div 8))) * w + 8 * (k % (w \div 8)), 8, 8, w - 8)

\* C6: for a W x H buffer with W and H multiples of 8, encode invokes the
\* tile sink exactly (W/8)*(H/8) times, in row-major tile order: call k
\* (from 0) carries the encoding of the tile whose top-left pixel is
\* (8*(k mod (W/8)), 8*(k div (W/8))).
C6_RowMajorTiles ==
    EncodeDimsOk(width, height) =>
        /\ \A k \in 0..(Len(tilesOut) - 1) :
              tilesOut[k + 1]
                  = TileSpan(encode_tile(img, TileView(k, width), bpp, format), bpp)
        /\ Len(tilesOut) <= (width \div 8) * (height \div 8)
        /\ estatus = "done" => Len(tilesOut) = (width \div 8) * (height \div 8)

C6_Witness ==
    /\ estatus = "done" /\ width = 16 /\ height = 16 /\ Len(tilesOut) = 4
    /\ tilesOut[2] # tilesOut[3]

\* bytes of one chunk of 16 tiles, and the number of chunks decode walks
ChunkBytes(n) == (n * 8) * TILES_PER_ROW
NumChunks(len, n) == (len + ChunkBytes(n) - 1) \div ChunkBytes(n)

\* row number j (from 1) of the log is row (j-1) mod 8 of chunk (j-1) div 8:
\* it has 128 entries and entry t*8+x is pixel ((j-1) mod 8, x) of tile t of
\* that chunk, for every tile t the chunk holds
RowIsChunkRow(j) ==
    LET c    == (j - 1) \div 8
        y    == (j - 1) % 8
        off  == c * ChunkBytes(bpp)
        held == ChunkTiles(bytes, bpp, off)
    IN  /\ Len(rows[j]) = ROW_SIZE
        /\ \A t \in 0..(held - 1), x \in 0..7 :
              rows[j][t * 8 + x + 1]
                  = decode_pixel(bytes, MkSpan(off + t * (bpp * 8), bpp * 8),
                                 y, x, bpp, format)

\* row number j of the log is 0 in every tile slot from slot `from` on
RowPadded(j, from) ==
    \A t \in from..(TILES_PER_ROW - 1), x \in 0..7 : rows[j][t * 8 + x + 1] = 0

\* decode has returned or has been stopped by the checked library
DecodeEnded == dstatus \in {"done", "aborted"}

\* C7: decode walks the buffer in chunks of bpp*8*16 bytes in increasing
\* offset order and, for each chunk, invokes the row sink exactly 8 times,
\* for rows 0..7 in that order, before it touches the next chunk; every row
\* has 128 entries and entry n*8+x of row y is pixel (y, x) of tile n of the
\* chunk, for every tile the chunk holds.
C7_ChunkRows ==
    ValidPair(bpp, format) =>
        /\ Len(rows) = 8 * (di \div ChunkBytes(bpp)) + dr
        /\ rows # <<>> => RowIsChunkRow(Len(rows))
        /\ DecodeEnded => Len(rows) = 8 * NumChunks(Len(bytes), bpp)

\* C8: when the length of the buffer is not a multiple of bpp*8*16, each of
\* the 8 rows of the final partial row group is 0 in every tile slot n >=
\* floor(remaining_bytes / (bpp*8)), and the slack bytes raise no error.
C8_PartialGroupPadded ==
    (ValidPair(bpp, format) /\ Len(bytes) % ChunkBytes(bpp) # 0 /\ DecodeEnded)
        => /\ dstatus = "done"
           /\ Len(rows) = 8 * NumChunks(Len(bytes), bpp)
           /\ \A j \in (Len(rows) - 7)..Len(rows) :
                 RowPadded(j, (Len(bytes) % ChunkBytes(bpp)) \div (bpp * 8))

\* C9 as stated: img_height(bpt*16*8, bpp) returns 8, and img_height(0, bpp)
\* returns 0, for every bpp in 1..8 with bpt = bpp*8.
C9_Original ==
    hstatus = "done" =>
        /\ hbytes = ((bpp * 8) * 16) * 8 => hresult = 8
        /\ hbytes = 0 => hresult = 0

\* C9, amended: img_height(bpt*16, bpp), one full row group, returns 8;
\* img_height(bpt*16*8, bpp), eight row groups, returns 64; and
\* img_height(0, bpp) returns 0.
C9_OneRowGroup ==
    hstatus = "done" =>
        /\ hbytes = (bpp * 8) * 16 => hresult = 8
        /\ hbytes = ((bpp * 8) * 16) * 8 => hresult = 64
        /\ hbytes = 0 => hresult = 0

C9_Witness ==
    /\ hstatus = "done" /\ bpp = 3 /\ hbytes = (3 * 8) * 16 /\ hresult = 8

\* C10: for every bpp in 1..8 and every buffer length n, decode terminates
\* and the number of rows it hands to the sink equals img_height(n, bpp) =
\* 8 * ceil(n / (bpp*8*16)), so a raster of 128 x img_height(n, bpp) pixels
\* is filled exactly.
C10_RowsFillHeight ==
    (ValidPair(bpp, format) /\ DecodeEnded)
        => /\ img_height(Len(bytes), bpp) = 8 * NumChunks(Len(bytes), bpp)
           /\ Len(rows) = img_height(Len(bytes), bpp)

\* What does hold of decode: C7, C8 and C10 in every run of a build that
\* does not check the precondition of subspan().
DecodeUncheckedBuild ==
    ~hardened => (C7_ChunkRows /\ C8_PartialGroupPadded /\ C10_RowsFillHeight)

(***************************************************************************)
(* Claims on the grayscale palettes (SpecGray).                            *)
(***************************************************************************)
\* the first channel of entry k of the palette built (the callback form hands
\* f one intensity per entry)
GrayIntensity(k) == IF gform = "callback" THEN gout[k] ELSE gout[k][1]

\* the channels entry k must have for intensity v
GrayEntryIs(k, v) ==
    IF gform = "callback" THEN gout[k] = v ELSE gout[k] = GrayColor(v, gchannels)

\* round(255 * t / (N - 1))
RoundedRamp(t, N) == (2 * 255 * t + (N - 1)) \div (2 * (N - 1))

\* C11: for every bpp in 1..8 the grayscale palette has exactly 2^bpp
\* entries: bpp_size(bpp) = 2^bpp, the callback form ends after exactly
\* 2^bpp calls of f, and for bpp = 1 the entries are black, then white.
C11_PaletteSize ==
    /\ gstatus # "trapped"
    /\ gstatus = "run" => Len(gout) <= 2^bpp
    /\ gstatus = "done" =>
          /\ bpp_size(bpp) = 2^bpp
          /\ Len(gout) = 2^bpp
          /\ bpp = 1 => GrayEntryIs(1, 0) /\ GrayEntryIs(2, 255)

\* C12: entry t of the grayscale palette of N = 2^bpp entries has intensity
\* round(255*t/(N-1)) on R, G and B, so entry 0 is 0 and entry N-1 is 255,
\* and an alpha channel, when present, is 255.
C12_RampIntensity ==
    gstatus = "done" =>
        /\ Len(gout) = 2^bpp
        /\ \A k \in 1..Len(gout) : GrayEntryIs(k, RoundedRamp(k - 1, 2^bpp))
        /\ GrayIntensity(1) = 0
        /\ GrayIntensity(Len(gout)) = 255

\* Where bpp^2 = 2^bpp (bpp 2 and 4) the palettes of lib/ have the size and
\* the intensities of C11 and C12; make_default_palette has 2^bpp entries
\* for every bpp, no intensity wraps modulo 256 in any form, and the alpha
\* channel of the template form is 255.
GrayscaleWhereSizesAgree ==
    /\ gstatus = "done" /\ bpp \in {2, 4} => C11_PaletteSize /\ C12_RampIntensity
    /\ gstatus = "done" /\ gform = "default" => Len(gout) = 2^bpp
    /\ gstatus = "done" /\ Len(gout) > 1 =>
          \A k \in 1..(Len(gout) - 1) : GrayIntensity(k) < GrayIntensity(k + 1)
    /\ gstatus = "done" /\ gform = "template" /\ gchannels \in {2, 4} =>
          \A k \in 1..Len(gout) : gout[k][gchannels] = 255

(***************************************************************************)
(* Claims on palette lookup and application (SpecPalette).                 *)
(***************************************************************************)
IndexingFunctions == {"make_indexed", "make_indexed_template", "make_indexed_RGB"}

\* number of colors in the data of a make_indexed call
NumColors == Len(pdata) \div channels

\* color k (from 0) of the data, as it is compared with the palette entries
LookupKey(k) ==
    LET col == SubSeq(pdata, k * channels + 1, k * channels + channels)
    IN  IF pfun \in RGBFunctions THEN make_color(col) ELSE col

\* indexes of the palette entries equal to col on every channel
MatchSet(col) == {i \in 0..(Len(palette) - 1) : palette[i + 1] = col}

LowestMatch(col) ==
    IF MatchSet(col) = {} THEN -1
    ELSE CHOOSE i \in MatchSet(col) : \A j \in MatchSet(col) : i <= j

\* position reported for data color k: make_indexed of lib/ counts channel
\* bytes of its flat data, make_indexed<Channels> counts colors
PositionOf(k) == IF pfun = "make_indexed" THEN k * channels ELSE k

\* C13: palette lookup returns the smallest index whose entry equals the
\* color on every channel and -1 iff no entry equals it; the index emitted
\* by make_indexed for a color held at several indexes is the lowest one.
C13_LowestIndex ==
    /\ pfun \in {"find_color", "find_color_RGB"} /\ pstatus = "done" =>
          pret = LowestMatch(LookupKey(0))
    /\ pfun \in IndexingFunctions =>
          \A k \in 1..Len(pout) :
              MatchSet(LookupKey(k - 1)) # {} =>
                  pout[k] = LowestMatch(LookupKey(k - 1))

\* C14: make_indexed returns -1 iff every color is in the palette, after one
\* output per color in order; otherwise it returns the position of the first
\* color not in the palette, after output for the colors before it only, and
\* no index is ever put out for a color that is not in the palette.
C14_FailureSurfaced ==
    pfun \in IndexingFunctions =>
        LET bad   == {k \in 0..(NumColors - 1) : MatchSet(LookupKey(k)) = {}}
            first == CHOOSE k \in bad : \A j \in bad : k <= j
        IN  /\ \A k \in 1..Len(pout) : pout[k] \in MatchSet(LookupKey(k - 1))
            /\ pstatus = "done" =>
                  IF bad = {}
                  THEN /\ Len(pout) = NumColors
                       /\ pfun # "make_indexed_RGB" => pret = -1
                  ELSE /\ Len(pout) = first
                       /\ pfun # "make_indexed_RGB" => pret = PositionOf(first)

\* C15: apply_palette calls output once per element of the index sequence,
\* in order, and the k-th color put out is palette[data[k]].
C15_IndexSelectsColor ==
    pfun \in {"apply_palette", "apply_palette_RGB"} =>
        /\ pstatus # "aborted"
        /\ Len(pout) <= Len(pdata)
        /\ \A k \in 1..Len(pout) : pout[k] = palette[pdata[k] + 1]
        /\ pstatus = "done" => Len(pout) = Len(pdata)

\* The functions of lib/retrogfx.hpp satisfy C13, C14 and C15; of the other
\* revisions only make_indexed<Channels> fails C13, only make_indexed of
\* src/retrogfx.cpp fails C14 and only its apply_palette fails C15.
PaletteLibConforms ==
    /\ pfun # "make_indexed_template" => C13_LowestIndex
    /\ pfun # "make_indexed_RGB" => C14_FailureSurfaced
    /\ pfun # "apply_palette_RGB" => C15_IndexSelectsColor

(***************************************************************************)
(* Claims on one tile (SpecTile).                                          *)
(***************************************************************************)
\* bit i of the value v
BitOf(v, i) == (v \div 2^i) % 2

\* byte k (from 0) of the tile that is decoded
TileByte(k) == ttile[k + 1]

\* the decoded pixel (y, x), once row y has been decoded
Decoded(y, x) == tdec[y * 8 + x + 1]

\* the rows decoded so far
DecodedRows == 0..((Len(tdec) \div 8) - 1)

\* C16: Planar decode of pixel (y, x) of a bpp*8-byte tile has bit i equal to
\* bit 7-x of tile byte y + i*8 for i in 0..bpp-1 and no bit at a position
\* >= bpp; a 2bpp tile with byte 0 = 0xFF and 0 elsewhere decodes to a row
\* of eight 1s followed by rows of 0s.
C16_PlanarBits ==
    format = "Planar" =>
        /\ \A y \in DecodedRows : \A x \in 0..7 :
              /\ \A i \in 0..(bpp - 1) :
                    BitOf(Decoded(y, x), i) = BitOf(TileByte(y + i * 8), 7 - x)
              /\ Decoded(y, x) \in 0..(2^bpp - 1)
        /\ bpp = 2 /\ torigin = "bytes" /\ ttile = TileBytes(0, 2) =>
              \A y \in DecodedRows : \A x \in 0..7 :
                  Decoded(y, x) = (IF y = 0 THEN 1 ELSE 0)

C16_Witness ==
    /\ format = "Planar" /\ bpp = 2 /\ torigin = "bytes"
    /\ ttile = TileBytes(0, 2)
    /\ Len(tdec) = 64
    /\ SubSeq(tdec, 1, 8) = <<1, 1, 1, 1, 1, 1, 1, 1>>

\* C17: Interwined decode of pixel (y, x) has bit 2i equal to bit 7-x of byte
\* i*16 + y*2 and bit 2i+1 equal to bit 7-x of byte i*16 + y*2 + 1 for each
\* pair i, and for odd bpp its top bit equal to bit 7-x of byte
\* floor(bpp/2)*16 + y; every byte index is < bpp*8, the result < 2^bpp.
C17_InterwinedBits ==
    format = "Interwined" =>
        \A y \in DecodedRows : \A x \in 0..7 :
            /\ \A i \in 0..((bpp \div 2) - 1) :
                  /\ i * 16 + y * 2 + 1 < bpp * 8
                  /\ BitOf(Decoded(y, x), 2 * i) =
                         BitOf(TileByte(i * 16 + y * 2), 7 - x)
                  /\ BitOf(Decoded(y, x), 2 * i + 1) =
                         BitOf(TileByte(i * 16 + y * 2 + 1), 7 - x)
            /\ bpp % 2 = 1 =>
                  /\ (bpp \div 2) * 16 + y < bpp * 8
                  /\ BitOf(Decoded(y, x), bpp - 1) =
                         BitOf(TileByte((bpp \div 2) * 16 + y), 7 - x)
            /\ Decoded(y, x) \in 0..(2^bpp - 1)

C17_Witness ==
    /\ format = "Interwined" /\ bpp = 3 /\ torigin = "bytes"
    /\ Len(tdec) = 64
    /\ \E p \in 1..64 : tdec[p] >= 4
    /\ \E p \in 1..64 : tdec[p] < 4

\* C18: for GBA with bpp 4 and bpp 8, encoding the 8 rows of a tile of
\* indexes in [0, 2^bpp) and decoding the emitted bpp*8 bytes returns the
\* original index for all 64 pixels.
C18_GBATileInverse ==
    /\ format = "GBA" /\ bpp \in {4, 8} /\ torigin = "pixels" =>
          /\ tstatus # "assert_failed"
          /\ \A p \in 1..Len(tdec) : tdec[p] = tpix[p]
          /\ tstatus = "done" => tdec = tpix

\* For GBA with bpp 4 the encoder is the inverse of the decoder on a tile.
GBA4TileInverse ==
    /\ format = "GBA" /\ bpp = 4 /\ torigin = "pixels" =>
          /\ tstatus # "assert_failed"
          /\ \A p \in 1..Len(tdec) : tdec[p] = tpix[p]
          /\ tstatus = "done" => tdec = tpix

\* C19: for Planar and Interwined and every bpp in 1..8, decoding the bytes
\* of an encoded tile returns the original indexes, the 8 row encodes assign
\* each of the bpp*8 tile bytes exactly once, and re-encoding a decoded tile
\* reproduces its bytes.
C19_TileInverse ==
    format \in {"Planar", "Interwined"} =>
        /\ torigin = "pixels" =>
              /\ \A p \in 1..Len(tdec) : tdec[p] = tpix[p]
              /\ tstatus = "done" => tdec = tpix
        /\ \A j, k \in 1..Len(twrites) :
              /\ twrites[j] \in 0..(bpp * 8 - 1)
              /\ j # k => twrites[j] # twrites[k]
        /\ tstatus = "done" \/ (tstatus = "decode" /\ torigin = "pixels") =>
              {twrites[k] : k \in 1..Len(twrites)} = 0..(bpp * 8 - 1)
        /\ torigin = "bytes" /\ tstatus = "done" => TileSpan(tres, bpp) = ttile

C19_Witness ==
    /\ format = "Interwined" /\ bpp = 5 /\ torigin = "bytes"
    /\ tstatus = "done"
    /\ Len(twrites) = 40
    /\ \E k \in 1..40 : ttile[k] # 0
    /\ TileSpan(tres, bpp) = ttile

(***************************************************************************)
(* Claim on the tile windows of decode (SpecDecode).                       *)
(***************************************************************************)
\* C20: every tile window decode forms (offset n*bpp*8, length bpp*8 in the
\* current chunk, for each tile slot n in 0..15) lies inside the chunk and
\* so inside the input buffer, also in a final chunk of fewer than 16 tiles.
C20_WindowsInsideBuffer ==
    /\ \A v \in views :
          /\ v.size = bpp * 8
          /\ v.base + v.size <= Len(bytes)
    /\ dstatus # "aborted"

\* For a buffer made of whole chunks every window lies inside its chunk, and
\* for any length the windows of the tiles the buffer holds whole (the slots
\* n < num_tiles, the only ones decoded) lie inside the buffer.
WindowsOfWholeChunks ==
    /\ Len(bytes) % ChunkBytes(bpp) = 0 => C20_WindowsInsideBuffer
    /\ \A v \in views :
          v.base \div (bpp * 8) < Len(bytes) \div (bpp * 8) =>
              v.base + v.size <= Len(bytes)

(***************************************************************************)
(* Claim on Span2D addressing (SpecSpan2D).                                *)
(***************************************************************************)
\* C21: element (r, c) of subspan(x, y, w', h') of a view of width w and
\* stride s is the buffer position of element (y+r, x+c) of the view,
\* base + (y+r)*(w+s) + x + c; and every position encode reads for a tile
\* row of a W x H buffer, W and H multiples of 8, is in [0, W*H).
C21_SubspanAddressing ==
    /\ sstatus = "read" =>
          /\ spos = sparent.d + (ssub.y + srow) * (sparent.w + sparent.s)
                        + ssub.x + scol
          /\ spos = Span2D_row(sparent, ssub.y + srow).base + ssub.x + scol
    /\ estatus \in {"loop", "done"} =>
          /\ tilesOut # <<>> => Cardinality(ereads) = TILE_WIDTH * TILE_HEIGHT
          /\ \A q \in ereads : q \in 0..(width * height - 1)

C21_Witness ==
    /\ sstatus = "read"
    /\ sparent.s > 0 /\ sparent.d > 0
    /\ ssub.x > 0 /\ ssub.y > 0 /\ ssub.w < sparent.w
    /\ srow > 0 /\ scol > 0

====
